---- MODULE Spec2Model ----
(***************************************************************************)
(* CursorCam: the tracking-and-gesture control loop of src/app.py.         *)
(*                                                                         *)
(* Units.  Time is in milliseconds (time.time() differences), pixel        *)
(* coordinates are integers, eye/mouth aspect ratios and their thresholds  *)
(* are in hundredths, velocity is in whole pixels per second.  The float   *)
(* factors of Config are held in tenths (1.2 -> 12).  Arithmetic on means  *)
(* and standard deviations is exact: the 2-sigma test is compared in       *)
(* squared, cross-multiplied integer form.                                 *)
(***************************************************************************)
EXTENDS Integers, Sequences, FiniteSets, Bags, TLC

(* ------------------------------ Config ------------------------------ *)
SCREEN_PADDING == 50
CALIBRATION_FRAMES == 15
\* CALIBRATION_THRESHOLD = 0.7, in tenths
CALIBRATION_THRESHOLD == 7
\* MOUSE_SPEED = 1.2, SMOOTH_FACTOR = 0.3, ACCELERATION_FACTOR = 1.5,
\* DECELERATION_FACTOR = 0.8, MOVEMENT_THRESHOLD = 2.0: all in tenths
MOUSE_SPEED == 12
SMOOTH_FACTOR == 3
ACCELERATION_FACTOR == 15
DECELERATION_FACTOR == 8
MOVEMENT_THRESHOLD == 20
EYE_AR_CONSEC_FRAMES == 2
MOUTH_AR_CONSEC_FRAMES == 3
\* cooldowns in milliseconds (1.0 s, 1.0 s, 0.5 s)
BLINK_COOLDOWN == 1000
MOUTH_COOLDOWN == 1000
CLICK_COOLDOWN == 500
\* BLINK_SENSITIVITY = 0.23, MOUTH_SENSITIVITY = 0.5, in hundredths
BLINK_SENSITIVITY == 23
MOUTH_SENSITIVITY == 50
DEFAULT_PROFILE == "default"

\* pyautogui.size(): the screen the tracker was constructed on
screen_w == 640
screen_h == 480

(* ------------------------------ bounds ------------------------------ *)
\* the clock stops advancing at MaxTime; a consecutive-frame counter stops
\* counting at MaxCount
MaxTime == 2500
MaxCount == 4

(* ------------------------- environment inputs ----------------------- *)
\* nose-tip landmark positions (landmarks.part(30)) the detector can report
FacePoints == { <<100, 100>>, <<105, 105>>, <<100, 105>> }
\* time between two processed frames: the same clock reading, 0.5 s, 1 s
Dts == { 0, 500, 1000 }
\* mean eye aspect ratio / mouth aspect ratio of a frame, in hundredths
EarValues == { BLINK_SENSITIVITY - 3, BLINK_SENSITIVITY + 7 }
MarValues == { MOUTH_SENSITIVITY - 10, MOUTH_SENSITIVITY + 10 }

None == << >>

Abs(a) == IF a < 0 THEN -a ELSE a
Sign(a) == IF a < 0 THEN -1 ELSE IF a > 0 THEN 1 ELSE 0
\* float -> fixed point: rounding towards zero
Trunc(a, b) == Sign(a) * (Abs(a) \div b)
Clip(v, lo, hi) == IF v < lo THEN lo ELSE IF v > hi THEN hi ELSE v

RECURSIVE SqrtSearch(_, _, _)
SqrtSearch(x, lo, hi) ==
    IF lo >= hi THEN lo
    ELSE LET mid == (lo + hi + 1) \div 2
         IN  IF mid * mid <= x THEN SqrtSearch(x, mid, hi)
             ELSE SqrtSearch(x, lo, mid - 1)
\* floor of the square root
ISqrt(x) == SqrtSearch(x, 0, 4096)

(* --------------------------- calibration ---------------------------- *)
RECURSIVE BagSum(_, _, _)
\* sum over the bag b of f applied to coordinate axis of each point
BagSum(b, axis, pow) ==
    IF BagToSet(b) = {} THEN 0
    ELSE LET p == CHOOSE q \in BagToSet(b) : TRUE
             rest == [q \in BagToSet(b) \ {p} |-> b[q]]
             v == IF pow = 0 THEN 1 ELSE IF pow = 1 THEN p[axis] ELSE p[axis] * p[axis]
         IN  b[p] * v + BagSum(rest, axis, pow)

\* np.abs(p - mean) < 2 * std on one axis, for the points of bag b:
\* n*|p - mean| < 2*n*std, squared:  (n*p - S)^2 < 4*(n*Q - S^2)
WithinTwoSigma(b, p, axis) ==
    LET n == BagCardinality(b)
        S == BagSum(b, axis, 1)
        Q == BagSum(b, axis, 2)
    IN  (n * p[axis] - S) * (n * p[axis] - S) < 4 * (n * Q - S * S)

\* good_points = points[np.all(np.abs(points - mean) < 2 * std, axis=1)]
GoodPoints(b) ==
    LET good == { p \in BagToSet(b) : WithinTwoSigma(b, p, 1) /\ WithinTwoSigma(b, p, 2) }
    IN  [p \in good |-> b[p]]

\* len(good_points) >= CALIBRATION_FRAMES * CALIBRATION_THRESHOLD
EnoughGood(b) ==
    BagCardinality(GoodPoints(b)) * 10 >= CALIBRATION_FRAMES * CALIBRATION_THRESHOLD

RECURSIVE GCD(_, _)
GCD(a, b) == IF b = 0 THEN a ELSE GCD(b, a % b)

\* np.mean(good_points, axis=0) as the exact fraction <<x, y, d>> in lowest
\* terms: the point (x / d, y / d)
MeanOf(g) ==
    LET sx == BagSum(g, 1, 1)
        sy == BagSum(g, 2, 1)
        n == BagCardinality(g)
        d == GCD(GCD(sx, sy), n)
    IN  << sx \div d, sy \div d, n \div d >>

\* the integer point p as a mean
AsMean(p) == << p[1], p[2], 1 >>

(* ----------------------------- profiles ----------------------------- *)
ProfileNames == { "default", "alt" }

\* UserProfile.__init__: sensitivity and smoothing in hundredths
NewProfile(name) ==
    [ name |-> name, sensitivity |-> 100, smoothing |-> 15,
      blink_threshold |-> BLINK_SENSITIVITY, mouth_threshold |-> MOUTH_SENSITIVITY,
      region_bounds |-> None, calibration_data |-> None ]

\* the dict UserProfile.save hands to json.dump
ProfileData(p) ==
    [ sensitivity |-> p.sensitivity, smoothing |-> p.smoothing,
      blink_threshold |-> p.blink_threshold, mouth_threshold |-> p.mouth_threshold,
      region_bounds |-> p.region_bounds, calibration_data |-> p.calibration_data ]

\* json.dump raises TypeError on an ndarray (calibration_data after a
\* successful calibration); every other value the model stores serialises
SaveRaises(p) == p.calibration_data # None

\* UserProfile.save: the file is opened for writing (truncated) and written
\* key by key, so a raising dump leaves half a document behind
SavedStore(st, p) ==
    [st EXCEPT ![p.name] = IF SaveRaises(p) THEN <<"corrupt">> ELSE <<"ok", ProfileData(p)>>]

\* UserProfile.load: the profile returned for a name
LoadedProfile(st, name) ==
    IF st[name][1] = "ok"
    THEN LET d == st[name][2]
         IN  [ name |-> name, sensitivity |-> d.sensitivity, smoothing |-> d.smoothing,
               blink_threshold |-> d.blink_threshold, mouth_threshold |-> d.mouth_threshold,
               region_bounds |-> d.region_bounds, calibration_data |-> d.calibration_data ]
    ELSE NewProfile(name)

\* UserProfile.load: the store afterwards (a missing profile is created and saved)
LoadedStore(st, name) ==
    IF st[name][1] = "missing" THEN SavedStore(st, NewProfile(name)) ELSE st

(* ------------------------------ state ------------------------------- *)
VARIABLES
    is_tracking, is_paused, is_calibrated,   \* FaceTracker flags
    calibration_points,                      \* the calibration buffer, as a bag of points
    reference_point,                         \* None, or the point <<x, y, d>> = (x / d, y / d)
    velocity,                                \* <<vx, vy>>
    last_update,                             \* time of the last position update
    eye_ar_counter, mouth_ar_counter,        \* GestureDetector counters
    last_blink_time, last_mouth_time,        \* GestureDetector trigger times
    last_click_time,                         \* time of the last issued click
    current_profile,                         \* the active UserProfile
    store,                                   \* user_profiles/<name>.json
    now,                                     \* time.time()
    out,                                     \* what the last operation did (observation)
    frame_thread,                            \* where the frame loop is inside process_frame
    runs                                     \* closed-eye / open-mouth run lengths (observation)

vars == << is_tracking, is_paused, is_calibrated, calibration_points, reference_point,
           velocity, last_update, eye_ar_counter, mouth_ar_counter, last_blink_time,
           last_mouth_time, last_click_time, current_profile, store, now, out,
           frame_thread, runs >>

trackerVars == << is_tracking, is_paused, is_calibrated, calibration_points,
                  reference_point, velocity, last_update, last_click_time >>
gestureVars == << eye_ar_counter, mouth_ar_counter, last_blink_time, last_mouth_time >>

\* the frame loop between two process_frame calls; inside a call the record
\* holds the call's locals
BetweenFrames ==
    [ pc |-> "idle", nose_point |-> None, ear |-> 0, mar |-> 0, current_pos |-> None,
      t |-> 0, verdict |-> None ]

\* the observation record of an operation that issued nothing
Quiet(op, ret) ==
    [ op |-> op, ret |-> ret, cal |-> "none", move |-> None, clicks |-> << >>,
      blink |-> FALSE, mouth |-> FALSE ]

\* FaceTracker.__init__ with no profile on disk: GestureDetector.__init__,
\* UserProfile.load(DEFAULT_PROFILE) creating and saving the default profile
Init ==
    /\ is_tracking = TRUE
    /\ is_paused = FALSE
    /\ is_calibrated = FALSE
    /\ calibration_points = EmptyBag
    /\ reference_point = None
    /\ velocity = <<0, 0>>
    /\ last_update = 0
    /\ eye_ar_counter = 0
    /\ mouth_ar_counter = 0
    /\ last_blink_time = 0
    /\ last_mouth_time = 0
    /\ last_click_time = 0
    /\ current_profile = NewProfile(DEFAULT_PROFILE)
    /\ store = [n \in ProfileNames |->
                  IF n = DEFAULT_PROFILE THEN <<"ok", ProfileData(NewProfile(n))>>
                  ELSE <<"missing">>]
    /\ now = 0
    /\ out = Quiet("init", "ok")
    /\ frame_thread = BetweenFrames
    /\ runs = [eye |-> 0, mouth |-> 0]

\* the tracker (FaceTracker, its GestureDetector and profile, the profile
\* files) as one record: the operations below are functions on it
Self ==
    [ is_tracking |-> is_tracking, is_paused |-> is_paused, is_calibrated |-> is_calibrated,
      calibration_points |-> calibration_points, reference_point |-> reference_point,
      velocity |-> velocity, last_update |-> last_update,
      eye_ar_counter |-> eye_ar_counter, mouth_ar_counter |-> mouth_ar_counter,
      last_blink_time |-> last_blink_time, last_mouth_time |-> last_mouth_time,
      last_click_time |-> last_click_time, current_profile |-> current_profile,
      store |-> store ]

\* the tracker after an operation is the record s
Becomes(after) ==
    \E s \in { after } :
    /\ is_tracking' = s.is_tracking
    /\ is_paused' = s.is_paused
    /\ is_calibrated' = s.is_calibrated
    /\ calibration_points' = s.calibration_points
    /\ reference_point' = s.reference_point
    /\ velocity' = s.velocity
    /\ last_update' = s.last_update
    /\ eye_ar_counter' = s.eye_ar_counter
    /\ mouth_ar_counter' = s.mouth_ar_counter
    /\ last_blink_time' = s.last_blink_time
    /\ last_mouth_time' = s.last_mouth_time
    /\ last_click_time' = s.last_click_time
    /\ current_profile' = s.current_profile
    /\ store' = s.store

(* --------------------------- FaceTracker ---------------------------- *)
\* calibrate appending while len <= CALIBRATION_FRAMES
calibrate_overfull(s, face_point) ==
    IF BagCardinality(s.calibration_points) <= CALIBRATION_FRAMES
    THEN [ ret |-> "pending",
           s |-> [s EXCEPT !.calibration_points = @ (+) SetToBag({face_point})] ]
    ELSE IF EnoughGood(s.calibration_points)
    THEN [ ret |-> "success",
           s |-> [s EXCEPT !.reference_point = MeanOf(GoodPoints(s.calibration_points)),
                           !.is_calibrated = TRUE,
                           !.velocity = <<0, 0>>] ]
    ELSE [ ret |-> "failed", s |-> [s EXCEPT !.calibration_points = EmptyBag] ]

\* calibrate resetting the velocity before it evaluates the buffer
calibrate_resetting(s, face_point) ==
    IF BagCardinality(s.calibration_points) < CALIBRATION_FRAMES
    THEN [ ret |-> "pending",
           s |-> [s EXCEPT !.calibration_points = @ (+) SetToBag({face_point})] ]
    ELSE IF EnoughGood(s.calibration_points)
    THEN [ ret |-> "success",
           s |-> [s EXCEPT !.reference_point = MeanOf(GoodPoints(s.calibration_points)),
                           !.is_calibrated = TRUE,
                           !.velocity = <<0, 0>>] ]
    ELSE [ ret |-> "failed",
           s |-> [s EXCEPT !.calibration_points = EmptyBag, !.velocity = <<0, 0>>] ]

\* FaceTracker.calibrate: [ret, s], ret one of "pending", "success", "failed"
calibrate(s, face_point) ==
    IF BagCardinality(s.calibration_points) < CALIBRATION_FRAMES
    THEN [ ret |-> "pending",
           s |-> [s EXCEPT !.calibration_points = @ (+) SetToBag({face_point})] ]
    ELSE IF EnoughGood(s.calibration_points)
    THEN [ ret |-> "success",
           s |-> [s EXCEPT !.reference_point = MeanOf(GoodPoints(s.calibration_points)),
                           !.is_calibrated = TRUE,
                           !.velocity = <<0, 0>>] ]
    ELSE [ ret |-> "failed", s |-> [s EXCEPT !.calibration_points = EmptyBag] ]

\* the displacement taken as reference - face_point
PowerLaw_reversed(face_point, ref, axis) ==
    LET num == ref[axis] - ref[3] * face_point[axis]
        den == ref[3]
        mag == Abs(num)
    IN  Sign(num) * ISqrt((mag * mag * mag) \div (den * den * den))

\* displacement = sign(d) * |d| ** 1.5 on one axis, d = face_point - reference
PowerLaw(face_point, ref, axis) ==
    LET num == ref[3] * face_point[axis] - ref[axis]
        den == ref[3]
        mag == Abs(num)
    IN  Sign(num) * ISqrt((mag * mag * mag) \div (den * den * den))

\* velocity * SMOOTH_FACTOR + displacement * MOUSE_SPEED * (1 - SMOOTH_FACTOR)
Smoothed(v, face_point, ref, axis) ==
    LET target_velocity == Trunc(PowerLaw(face_point, ref, axis) * MOUSE_SPEED, 10)
    IN  Trunc(v[axis] * SMOOTH_FACTOR + target_velocity * (10 - SMOOTH_FACTOR), 10)

\* the velocity after the acceleration / deceleration step
NewVelocity(v, face_point, ref) ==
    LET vx == Smoothed(v, face_point, ref, 1)
        vy == Smoothed(v, face_point, ref, 2)
        factor == IF 100 * (vx * vx + vy * vy) > MOVEMENT_THRESHOLD * MOVEMENT_THRESHOLD
                  THEN ACCELERATION_FACTOR ELSE DECELERATION_FACTOR
    IN  << Trunc(vx * factor, 10), Trunc(vy * factor, 10) >>

\* new_pos = current_pos + velocity * dt, clipped to the padded screen, astype(int)
ScreenClamped(current_pos, v, dt) ==
    << Clip(current_pos[1] + ((v[1] * dt) \div 1000), SCREEN_PADDING, screen_w - SCREEN_PADDING),
       Clip(current_pos[2] + ((v[2] * dt) \div 1000), SCREEN_PADDING, screen_h - SCREEN_PADDING) >>

\* update_position scaling the velocity by the profile's sensitivity
update_position_sensitive(s, face_point, current_pos, t) ==
    IF ~s.is_calibrated \/ ~s.is_tracking
    THEN [ pos |-> None, s |-> s ]
    ELSE IF s.reference_point = None
    THEN [ pos |-> None, s |-> [s EXCEPT !.last_update = t] ]
    ELSE LET n == NewVelocity(s.velocity, face_point, s.reference_point)
             v == << Trunc(n[1] * s.current_profile.sensitivity, 100),
                     Trunc(n[2] * s.current_profile.sensitivity, 100) >>
         IN  [ pos |-> ScreenClamped(current_pos, v, t - s.last_update),
               s |-> [s EXCEPT !.last_update = t, !.velocity = v] ]

\* FaceTracker.update_position: [pos, s]; pos is None when nothing is returned
update_position(s, face_point, current_pos, t) ==
    IF ~s.is_calibrated \/ ~s.is_tracking
    THEN [ pos |-> None, s |-> s ]
    ELSE IF s.reference_point = None
    THEN \* np.array(face_point) - None raises; last_update is already set
         [ pos |-> None, s |-> [s EXCEPT !.last_update = t] ]
    ELSE LET v == NewVelocity(s.velocity, face_point, s.reference_point)
         IN  [ pos |-> ScreenClamped(current_pos, v, t - s.last_update),
               s |-> [s EXCEPT !.last_update = t, !.velocity = v] ]

\* handle_click without the cooldown test
handle_click_unlimited(s, t) ==
    [ clicked |-> TRUE, s |-> [s EXCEPT !.last_click_time = t] ]

\* FaceTracker.handle_click: [clicked, s]
handle_click(s, t) ==
    IF t - s.last_click_time >= CLICK_COOLDOWN
    THEN [ clicked |-> TRUE, s |-> [s EXCEPT !.last_click_time = t] ]
    ELSE [ clicked |-> FALSE, s |-> s ]

(* -------------------------- GestureDetector ------------------------- *)
\* detect_blink without the cooldown test
detect_blink_uncooled(s, ear, threshold, t) ==
    IF ear < threshold
    THEN [ event |-> FALSE, s |-> [s EXCEPT !.eye_ar_counter = @ + 1] ]
    ELSE IF s.eye_ar_counter >= EYE_AR_CONSEC_FRAMES
    THEN [ event |-> TRUE, s |-> [s EXCEPT !.last_blink_time = t] ]
    ELSE [ event |-> FALSE, s |-> [s EXCEPT !.eye_ar_counter = 0] ]

\* GestureDetector.detect_blink: [event, s]
detect_blink(s, ear, threshold, t) ==
    IF ear < threshold
    THEN [ event |-> FALSE, s |-> [s EXCEPT !.eye_ar_counter = @ + 1] ]
    ELSE IF s.eye_ar_counter >= EYE_AR_CONSEC_FRAMES /\ t - s.last_blink_time >= BLINK_COOLDOWN
    THEN [ event |-> TRUE, s |-> [s EXCEPT !.last_blink_time = t] ]
    ELSE [ event |-> FALSE, s |-> [s EXCEPT !.eye_ar_counter = 0] ]

\* GestureDetector.detect_mouth_open: [event, s]
detect_mouth_open(s, mar, threshold, t) ==
    IF mar > threshold
    THEN [ event |-> FALSE, s |-> [s EXCEPT !.mouth_ar_counter = @ + 1] ]
    ELSE IF s.mouth_ar_counter >= MOUTH_AR_CONSEC_FRAMES /\ t - s.last_mouth_time >= MOUTH_COOLDOWN
    THEN [ event |-> TRUE, s |-> [s EXCEPT !.last_mouth_time = t] ]
    ELSE [ event |-> FALSE, s |-> [s EXCEPT !.mouth_ar_counter = 0] ]

(* --------------------------- process_frame -------------------------- *)
\* np.clip(a, lo, hi) = minimum(maximum(a, lo), hi), also when lo > hi
NpClip(a, lo, hi) ==
    LET m == IF a < lo THEN lo ELSE a
    IN  IF m > hi THEN hi ELSE m

\* the region-locking clamp of process_frame
RegionClamped(pos, region) ==
    << NpClip(pos[1], region[1], region[3]), NpClip(pos[2], region[2], region[4]) >>

\* the calibration branch: calibrate, and on success store the reference in
\* the profile and save it
CalibrationStep(s, nose_point) ==
    LET c == calibrate(s, nose_point)
    IN  IF c.ret = "success"
        THEN LET prof == [c.s.current_profile EXCEPT !.calibration_data = c.s.reference_point]
                 s1 == [c.s EXCEPT !.current_profile = prof, !.store = SavedStore(@, prof)]
             IN  [ s |-> s1,
                   out |-> [Quiet("frame", IF SaveRaises(prof) THEN "error" ELSE "ok")
                              EXCEPT !.cal = "success"] ]
        ELSE [ s |-> c.s, out |-> [Quiet("frame", "ok") EXCEPT !.cal = c.ret] ]

\* the gesture part with the mouth event dispatched before the blink
GestureStep_mouth_first(s, move, ear, mar, t) ==
    LET m == detect_mouth_open(s, mar, s.current_profile.mouth_threshold, t)
        mc == IF m.event THEN handle_click(m.s, t) ELSE [clicked |-> FALSE, s |-> m.s]
        b == detect_blink(mc.s, ear, mc.s.current_profile.blink_threshold, t)
        bc == IF b.event THEN handle_click(b.s, t) ELSE [clicked |-> FALSE, s |-> b.s]
    IN  [ s |-> bc.s,
          out |-> [ op |-> "frame", ret |-> "ok", cal |-> "none", move |-> move,
                    clicks |-> (IF mc.clicked THEN <<"left">> ELSE << >>)
                               \o (IF bc.clicked THEN <<"right">> ELSE << >>),
                    blink |-> b.event, mouth |-> m.event ] ]

\* the gesture part of the tracking branch, after the cursor was handled
GestureStep(s, move, ear, mar, t) ==
    LET b == detect_blink(s, ear, s.current_profile.blink_threshold, t)
        bc == IF b.event THEN handle_click(b.s, t) ELSE [clicked |-> FALSE, s |-> b.s]
        m == detect_mouth_open(bc.s, mar, bc.s.current_profile.mouth_threshold, t)
        mc == IF m.event THEN handle_click(m.s, t) ELSE [clicked |-> FALSE, s |-> m.s]
    IN  [ s |-> mc.s,
          out |-> [ op |-> "frame", ret |-> "ok", cal |-> "none", move |-> move,
                    clicks |-> (IF bc.clicked THEN <<"right">> ELSE << >>)
                               \o (IF mc.clicked THEN <<"left">> ELSE << >>),
                    blink |-> b.event, mouth |-> m.event ] ]

\* the tracking branch: update_position, region locking, moveTo, gestures
TrackingStep(s, nose_point, ear, mar, current_pos, t) ==
    LET u == update_position(s, nose_point, current_pos, t)
        region == u.s.current_profile.region_bounds
    IN  IF u.pos = None \/ u.s.is_paused
        THEN GestureStep(u.s, None, ear, mar, t)
        ELSE IF region = None
        THEN GestureStep(u.s, u.pos, ear, mar, t)
        ELSE IF Len(region) # 4
        THEN \* x1, y1, x2, y2 = region_bounds raises ValueError
             [ s |-> u.s, out |-> Quiet("frame", "error") ]
        ELSE GestureStep(u.s, RegionClamped(u.pos, region), ear, mar, t)

\* process_frame without the PAUSED gate
process_frame_unpaused(s, face, nose_point, ear, mar, current_pos, t) ==
    IF ~s.is_tracking THEN [ s |-> s, out |-> Quiet("frame", "stopped") ]
    ELSE IF ~face THEN [ s |-> s, out |-> Quiet("frame", "noface") ]
    ELSE IF ~s.is_calibrated THEN CalibrationStep(s, nose_point)
    ELSE TrackingStep(s, nose_point, ear, mar, current_pos, t)

\* process_frame dropping the gesture counters when no face is found
process_frame_forgetful(s, face, nose_point, ear, mar, current_pos, t) ==
    IF ~s.is_tracking THEN [ s |-> s, out |-> Quiet("frame", "stopped") ]
    ELSE IF s.is_paused THEN [ s |-> s, out |-> Quiet("frame", "paused") ]
    ELSE IF ~face
    THEN [ s |-> [s EXCEPT !.eye_ar_counter = 0, !.mouth_ar_counter = 0],
           out |-> Quiet("frame", "noface") ]
    ELSE IF ~s.is_calibrated THEN CalibrationStep(s, nose_point)
    ELSE TrackingStep(s, nose_point, ear, mar, current_pos, t)

\* process_frame at time t: face tells whether the detector found a face,
\* nose_point, ear and mar are what the landmarks give, current_pos is
\* pyautogui.position()
process_frame(s, face, nose_point, ear, mar, current_pos, t) ==
    IF ~s.is_tracking THEN [ s |-> s, out |-> Quiet("frame", "stopped") ]
    ELSE IF s.is_paused THEN [ s |-> s, out |-> Quiet("frame", "paused") ]
    ELSE IF ~face THEN [ s |-> s, out |-> Quiet("frame", "noface") ]
    ELSE IF ~s.is_calibrated THEN CalibrationStep(s, nose_point)
    ELSE TrackingStep(s, nose_point, ear, mar, current_pos, t)

\* generate_frames with no try / except around the frame: a fault ends the loop
LoopAfter_uncaught(o) ==
    IF o.ret = "error" THEN [BetweenFrames EXCEPT !.pc = "dead"] ELSE BetweenFrames

\* generate_frames after process_frame returned: whatever the frame
\* reported, the loop goes on to encode the frame and read the next one
LoopAfter(o) == BetweenFrames

\* whether the frame ran the gesture detectors
Detected(o) == o.op = "frame" /\ o.ret = "ok" /\ o.cal = "none"

\* one processed frame, dt after the previous one
Frame(dt, face, nose_point, ear, mar, current_pos) ==
    /\ frame_thread.pc = "idle"
    /\ now + dt <= MaxTime
    /\ ear < current_profile.blink_threshold => eye_ar_counter < MaxCount
    /\ mar > current_profile.mouth_threshold => mouth_ar_counter < MaxCount
    /\ \E r \in { process_frame(Self, face, nose_point, ear, mar, current_pos, now + dt) } :
           /\ Becomes(r.s)
           /\ out' = r.out
           /\ frame_thread' = LoopAfter(r.out)
           /\ runs' = IF Detected(r.out)
                      THEN [ eye |-> IF ear < current_profile.blink_threshold
                                     THEN runs.eye + 1 ELSE 0,
                             mouth |-> IF mar > current_profile.mouth_threshold
                                       THEN runs.mouth + 1 ELSE 0 ]
                      ELSE runs
    /\ now' = now + dt

(* ----------------------------- commands ----------------------------- *)
\* toggle_tracking clearing the reference and the buffer, not the flag
toggle_tracking_forgetful(s) ==
    IF s.is_tracking
    THEN [s EXCEPT !.is_tracking = FALSE, !.reference_point = None,
                   !.calibration_points = EmptyBag]
    ELSE [s EXCEPT !.is_tracking = TRUE]

\* FaceTracker.toggle_tracking
toggle_tracking(s) ==
    IF s.is_tracking
    THEN [s EXCEPT !.is_tracking = FALSE, !.is_calibrated = FALSE,
                   !.calibration_points = EmptyBag]
    ELSE [s EXCEPT !.is_tracking = TRUE]

\* toggle_pause that also drops the gesture counters
toggle_pause_resetting(s) ==
    [s EXCEPT !.is_paused = ~@, !.eye_ar_counter = 0, !.mouth_ar_counter = 0]

\* FaceTracker.toggle_pause
toggle_pause(s) == [s EXCEPT !.is_paused = ~@]

\* FaceTracker.set_profile: [raised, s].  The class of app.py defines no
\* reset_calibration, so the call after the load raises AttributeError
set_profile(s, profile_name) ==
    [ raised |-> TRUE,
      s |-> [s EXCEPT !.current_profile = LoadedProfile(s.store, profile_name),
                      !.store = LoadedStore(s.store, profile_name)] ]

\* a settings value is <<"num", v>> (float(v) succeeds) or <<"str">>
\* (float raises ValueError); region_bounds is taken as it comes
NumericKeys == << "sensitivity", "smoothing", "blink_threshold", "mouth_threshold" >>

RECURSIVE ApplyNumeric(_, _, _)
\* the float(...) assignments of update_settings from key number i on:
\* [raised, p], p the profile when the first conversion raised or all were done
ApplyNumeric(p, settings, i) ==
    IF i > Len(NumericKeys) THEN [ raised |-> FALSE, p |-> p ]
    ELSE LET k == NumericKeys[i]
         IN  IF k \notin DOMAIN settings THEN ApplyNumeric(p, settings, i + 1)
             ELSE IF settings[k][1] # "num" THEN [ raised |-> TRUE, p |-> p ]
             ELSE ApplyNumeric([p EXCEPT ![k] = settings[k][2]], settings, i + 1)

\* FaceTracker.update_settings: [raised, s]
update_settings(s, settings) ==
    LET a == ApplyNumeric(s.current_profile, settings, 1)
        prof == IF "region_bounds" \in DOMAIN settings
                THEN [a.p EXCEPT !.region_bounds = settings["region_bounds"]]
                ELSE a.p
    IN  IF a.raised
        THEN [ raised |-> TRUE, s |-> [s EXCEPT !.current_profile = a.p] ]
        ELSE [ raised |-> SaveRaises(prof),
               s |-> [s EXCEPT !.current_profile = prof, !.store = SavedStore(@, prof)] ]

\* a call of FaceTracker.toggle_tracking
ToggleTracking ==
    /\ Becomes(toggle_tracking(Self))
    /\ out' = Quiet("toggle_tracking", IF is_tracking THEN "stopped" ELSE "tracking")
    /\ UNCHANGED << now, runs, frame_thread >>

\* handle_toggle_pause
HandleTogglePause ==
    /\ Becomes(toggle_pause(Self))
    /\ out' = Quiet("toggle_pause", IF is_paused THEN "tracking" ELSE "paused")
    /\ UNCHANGED << now, runs, frame_thread >>

\* handle_set_profile
HandleSetProfile(name) ==
    \E r \in { set_profile(Self, name) } :
        /\ Becomes(r.s)
        /\ out' = Quiet("set_profile", IF r.raised THEN "error" ELSE "success")
        /\ UNCHANGED << now, runs, frame_thread >>

\* handle_settings_update
HandleSettingsUpdate(data) ==
    \E r \in { update_settings(Self, data) } :
        /\ Becomes(r.s)
        /\ out' = Quiet("update_settings", IF r.raised THEN "error" ELSE "success")
        /\ UNCHANGED << now, runs, frame_thread >>

\* handle_calibration: face_tracker.reset_calibration() raises AttributeError
HandleCalibration ==
    /\ out' = Quiet("calibrate", "error")
    /\ UNCHANGED << trackerVars, gestureVars, current_profile, store, now, runs,
                    frame_thread >>

\* handle_toggle_tracking: stop_tracking / start_tracking raise AttributeError
HandleToggleTracking ==
    /\ out' = Quiet("handle_toggle_tracking", "error")
    /\ UNCHANGED << trackerVars, gestureVars, current_profile, store, now, runs,
                    frame_thread >>

(* -------------------------- specifications -------------------------- *)
\* the tracker FaceTracker.__init__ leaves
Constructed ==
    [ is_tracking |-> TRUE, is_paused |-> FALSE, is_calibrated |-> FALSE,
      calibration_points |-> EmptyBag, reference_point |-> None,
      velocity |-> <<0, 0>>, last_update |-> 0,
      eye_ar_counter |-> 0, mouth_ar_counter |-> 0,
      last_blink_time |-> 0, last_mouth_time |-> 0, last_click_time |-> 0,
      current_profile |-> NewProfile(DEFAULT_PROFILE),
      store |-> [n \in ProfileNames |->
                   IF n = DEFAULT_PROFILE THEN <<"ok", ProfileData(NewProfile(n))>>
                   ELSE <<"missing">>] ]

\* open eyes, closed mouth, the pointer in the middle of the screen
RestEar == BLINK_SENSITIVITY + 7
RestMar == MOUTH_SENSITIVITY - 10
RestPos == << 320, 240 >>

RECURSIVE Fed(_, _, _)
\* the tracker after n more frames, all at time 0, with the nose at point
Fed(s, point, n) ==
    IF n = 0 THEN s
    ELSE Fed(process_frame(s, TRUE, point, RestEar, RestMar, RestPos, 0).s, point, n - 1)

Still == << 100, 100 >>
Aside == << 105, 105 >>

\* the tracker after a first calibration: 13 frames at Still, 2 at Aside,
\* and the frame that evaluates the buffer; the reference is Still
Tracked == Fed(Fed(Constructed, Still, 13), Aside, 3)

\* the tracker stopped and started again after two more frames at Aside:
\* uncalibrated, with the velocity and the reference of the first round
Restarted == toggle_tracking(toggle_tracking(Fed(Tracked, Aside, 2)))

\* the state in which the tracker is s and nothing has been observed
StartsAs(s) ==
    /\ is_tracking = s.is_tracking
    /\ is_paused = s.is_paused
    /\ is_calibrated = s.is_calibrated
    /\ calibration_points = s.calibration_points
    /\ reference_point = s.reference_point
    /\ velocity = s.velocity
    /\ last_update = s.last_update
    /\ eye_ar_counter = s.eye_ar_counter
    /\ mouth_ar_counter = s.mouth_ar_counter
    /\ last_blink_time = s.last_blink_time
    /\ last_mouth_time = s.last_mouth_time
    /\ last_click_time = s.last_click_time
    /\ current_profile = s.current_profile
    /\ store = s.store
    /\ now = 0
    /\ out = Quiet("init", "ok")
    /\ frame_thread = BetweenFrames
    /\ runs = [eye |-> 0, mouth |-> 0]

\* settings payloads a client sends
LifeSettings ==
    { [ sensitivity |-> <<"num", 150>>, smoothing |-> <<"str">> ] }

\* in one accumulation of the life-cycle specification the nose is off
\* Still in at most MaxAside frames
MaxAside == 3

\* The whole life cycle from construction: every command, frames with the
\* nose at Still or Aside, eyes open and mouth closed, on one clock reading.
LifeFrame ==
    \E face \in BOOLEAN, nose_point \in { Still, Aside } :
        /\ (nose_point = Aside /\ ~is_calibrated)
              => CopiesIn(Aside, calibration_points) < MaxAside
        /\ Frame(0, face, nose_point, RestEar, RestMar, RestPos)

Next ==
    \/ LifeFrame
    \/ ToggleTracking
    \/ HandleTogglePause
    \/ \E name \in ProfileNames : HandleSetProfile(name)
    \/ \E data \in LifeSettings : HandleSettingsUpdate(data)
    \/ HandleCalibration
    \/ HandleToggleTracking

Spec == Init /\ [][Next]_vars

\* Calibration: from construction or from a restart, the nose at any of
\* FacePoints in any order, pause toggled at will.
InitCal == StartsAs(Constructed) \/ StartsAs(Restarted)

NextCal ==
    \/ \E face \in BOOLEAN, nose_point \in FacePoints :
          Frame(0, face, nose_point, RestEar, RestMar, RestPos)
    \/ HandleTogglePause

SpecCal == InitCal /\ [][NextCal]_vars

\* Gestures: from the calibrated tracker, with the nose held at the
\* reference (the pointer rests), eyes and mouth opening and closing at any
\* of the frame intervals, pause toggled at will.
InitGesture == StartsAs(Tracked)

NextGesture ==
    \/ \E dt \in Dts, face \in BOOLEAN, ear \in EarValues, mar \in MarValues :
          Frame(dt, face, Still, ear, mar, RestPos)
    \/ HandleTogglePause

SpecGesture == InitGesture /\ [][NextGesture]_vars

\* Motion: from the calibrated tracker (the reference is Still), the nose
\* at rest or off it, the pointer found anywhere on the screen, region
\* locking switched by settings updates, pause toggled at will.
MotionPoints == { Still, << 110, 100 >>, << 96, 93 >> }
MotionDts == { 0, 1000 }
CursorPositions == { RestPos, << 590, 430 >>, << 0, 479 >> }
\* region rectangles: inside the padded screen, off it in a corner, with
\* x1 > x2, and region locking switched off
RegionSettings ==
    { [ region_bounds |-> << 200, 150, 400, 300 >> ],
      [ region_bounds |-> << 0, 0, 40, 40 >> ],
      [ region_bounds |-> << 400, 150, 200, 300 >> ],
      [ region_bounds |-> None ] }

InitMotion == StartsAs(Tracked)

NextMotion ==
    \/ \E dt \in MotionDts, face \in BOOLEAN, nose_point \in MotionPoints,
          current_pos \in CursorPositions :
          Frame(dt, face, nose_point, RestEar, RestMar, current_pos)
    \/ \E data \in RegionSettings : HandleSettingsUpdate(data)
    \/ HandleTogglePause

SpecMotion == InitMotion /\ [][NextMotion]_vars

\* Gating: gestures as above on frames 0 s or 1 s apart, with
\* FaceTracker.toggle_tracking, so that frames also arrive while the
\* tracker is stopped, paused, or calibrating again after a restart.
NextGate ==
    \/ \E dt \in MotionDts, face \in BOOLEAN, ear \in EarValues, mar \in MarValues :
          Frame(dt, face, Still, ear, mar, RestPos)
    \/ HandleTogglePause
    \/ ToggleTracking

SpecGate == InitGesture /\ [][NextGate]_vars

(* ------------------ process_frame on its own thread ----------------- *)
\* generate_frames runs in the thread of the /video_feed request and the
\* socket handlers in others; app.py takes no lock.  A process_frame call
\* is then a sequence of steps between which a whole command can run:
\* the gates, the branch on is_calibrated up to the cursor move or the
\* evaluation of the buffer, the commit of the evaluation, the gestures.

\* update_position, region locking and moveTo: [s, move, raised]
CursorStep(s, nose_point, current_pos, t) ==
    LET u == update_position(s, nose_point, current_pos, t)
        region == u.s.current_profile.region_bounds
    IN  IF u.pos = None \/ u.s.is_paused
        THEN [ s |-> u.s, move |-> None, raised |-> FALSE ]
        ELSE IF region = None
        THEN [ s |-> u.s, move |-> u.pos, raised |-> FALSE ]
        ELSE IF Len(region) # 4
        THEN [ s |-> u.s, move |-> None, raised |-> TRUE ]
        ELSE [ s |-> u.s, move |-> RegionClamped(u.pos, region), raised |-> FALSE ]

\* what calibrate computes from the buffer once it is full
Verdict(b) ==
    IF EnoughGood(b) THEN << "success", MeanOf(GoodPoints(b)) >> ELSE << "failed" >>

\* the assignments that follow the evaluation, and on success the profile save
CommitStep(s, verdict) ==
    IF verdict[1] = "success"
    THEN LET prof == [s.current_profile EXCEPT !.calibration_data = verdict[2]]
         IN  [ s |-> [s EXCEPT !.reference_point = verdict[2],
                               !.is_calibrated = TRUE,
                               !.velocity = <<0, 0>>,
                               !.current_profile = prof,
                               !.store = SavedStore(@, prof)],
               out |-> [Quiet("frame", IF SaveRaises(prof) THEN "error" ELSE "ok")
                          EXCEPT !.cal = "success"] ]
    ELSE [ s |-> [s EXCEPT !.calibration_points = EmptyBag],
           out |-> [Quiet("frame", "ok") EXCEPT !.cal = "failed"] ]

\* process_frame up to the face detection
FrameEnter(dt, face, nose_point, ear, mar, current_pos) ==
    /\ frame_thread.pc = "idle"
    /\ now + dt <= MaxTime
    /\ ear < current_profile.blink_threshold => eye_ar_counter < MaxCount
    /\ mar > current_profile.mouth_threshold => mouth_ar_counter < MaxCount
    /\ now' = now + dt
    /\ IF ~is_tracking \/ is_paused \/ ~face
       THEN /\ out' = process_frame(Self, face, nose_point, ear, mar, current_pos, now + dt).out
            /\ UNCHANGED frame_thread
       ELSE /\ out' = Quiet("frame", "running")
            /\ frame_thread' = [ pc |-> "entered", nose_point |-> nose_point, ear |-> ear,
                                 mar |-> mar, current_pos |-> current_pos, t |-> now + dt,
                                 verdict |-> None ]
    /\ UNCHANGED << trackerVars, gestureVars, current_profile, store, runs >>

\* the branch on is_calibrated: calibrate appends or evaluates the buffer,
\* or the cursor is moved
FrameBranch ==
    /\ frame_thread.pc = "entered"
    /\ IF ~is_calibrated
       THEN IF BagCardinality(calibration_points) < CALIBRATION_FRAMES
            THEN /\ Becomes(calibrate(Self, frame_thread.nose_point).s)
                 /\ out' = [Quiet("frame", "ok") EXCEPT !.cal = "pending"]
                 /\ frame_thread' = BetweenFrames
            ELSE /\ frame_thread' = [frame_thread EXCEPT !.pc = "evaluated",
                                       !.verdict = Verdict(calibration_points)]
                 /\ out' = Quiet("frame", "running")
                 /\ UNCHANGED << trackerVars, gestureVars, current_profile, store >>
       ELSE \E u \in { CursorStep(Self, frame_thread.nose_point,
                                  frame_thread.current_pos, frame_thread.t) } :
                 /\ Becomes(u.s)
                 /\ out' = [Quiet("frame", IF u.raised THEN "error" ELSE "running")
                              EXCEPT !.move = u.move]
                 /\ frame_thread' = IF u.raised THEN BetweenFrames
                                    ELSE [frame_thread EXCEPT !.pc = "moved"]
    /\ UNCHANGED << now, runs >>

\* calibrate after the evaluation: success or failure is written back
FrameCommit ==
    /\ frame_thread.pc = "evaluated"
    /\ \E r \in { CommitStep(Self, frame_thread.verdict) } :
           /\ Becomes(r.s)
           /\ out' = r.out
    /\ frame_thread' = BetweenFrames
    /\ UNCHANGED << now, runs >>

\* the gesture detectors and their clicks
FrameGestures ==
    /\ frame_thread.pc = "moved"
    /\ \E r \in { GestureStep(Self, None, frame_thread.ear, frame_thread.mar,
                              frame_thread.t) } :
           /\ Becomes(r.s)
           /\ out' = r.out
    /\ runs' = [ eye |-> IF frame_thread.ear < current_profile.blink_threshold
                         THEN runs.eye + 1 ELSE 0,
                 mouth |-> IF frame_thread.mar > current_profile.mouth_threshold
                           THEN runs.mouth + 1 ELSE 0 ]
    /\ frame_thread' = BetweenFrames
    /\ UNCHANGED now

\* a buffer that is full and not yet evaluated
Filled == Fed(Fed(Constructed, Still, 13), Aside, 2)

\* Threads: frames in steps, from the calibrated tracker or from a full
\* buffer, with the pause and toggle_tracking commands running in between.
InitRace == StartsAs(Tracked) \/ StartsAs(Filled)

NextRace ==
    \/ \E dt \in MotionDts, face \in BOOLEAN, ear \in EarValues :
          FrameEnter(dt, face, Still, ear, RestMar, RestPos)
    \/ FrameBranch
    \/ FrameCommit
    \/ FrameGestures
    \/ HandleTogglePause
    \/ ToggleTracking

SpecRace == InitRace /\ [][NextRace]_vars

\* what get_eye_aspect_ratio / get_mouth_aspect_ratio return when the
\* computation raises (landmarks.part fails, malformed points)
FaultRatio == 0

\* Faults: gestures as above, where each of the two ratio computations can
\* also fault on a frame.
NextFault ==
    \/ \E dt \in MotionDts, face \in BOOLEAN,
          ear \in EarValues \cup { FaultRatio }, mar \in MarValues \cup { FaultRatio } :
          Frame(dt, face, Still, ear, mar, RestPos)
    \/ HandleTogglePause

SpecFault == InitGesture /\ [][NextFault]_vars

\* One sample: from the calibrated tracker (reference Still, velocity
\* zero), frames 33 ms apart with the nose 10 px to the right of the
\* reference or on it, the pointer found anywhere on the screen.
ScenarioDts == { 33 }
ScenarioPoint == << 110, 100 >>
ScenarioCursors ==
    { RestPos, << SCREEN_PADDING, 240 >>, << screen_w - SCREEN_PADDING, 240 >>,
      << 620, 240 >>, << 0, 0 >>, << 639, 479 >> }

\* the scenario is followed for MaxSamples frames
MaxSamples == 8

NextScenario ==
    \E dt \in ScenarioDts, face \in BOOLEAN, nose_point \in { ScenarioPoint, Still },
       current_pos \in ScenarioCursors :
       /\ now + dt <= MaxSamples * dt
       /\ Frame(dt, face, nose_point, RestEar, RestMar, current_pos)

SpecScenario == InitGesture /\ [][NextScenario]_vars

(* ------------------------------ claims ------------------------------ *)
InPaddedScreen(pos) ==
    /\ SCREEN_PADDING <= pos[1] /\ pos[1] <= screen_w - SCREEN_PADDING
    /\ SCREEN_PADDING <= pos[2] /\ pos[2] <= screen_h - SCREEN_PADDING

InRegion(pos, region) ==
    /\ region[1] <= pos[1] /\ pos[1] <= region[3]
    /\ region[2] <= pos[2] /\ pos[2] <= region[4]

\* C1: every target handed to moveTo lies in the padded screen and, when the
\* active profile has region_bounds, in that rectangle too, whatever the
\* rectangle is.
C1_TargetInScreenAndRegion ==
    out.move # None =>
        /\ InPaddedScreen(out.move)
        /\ current_profile.region_bounds # None
              => InRegion(out.move, current_profile.region_bounds)

\* C2: a blink (mouth) event is emitted at time t only if t minus that
\* gesture's last trigger time is at least its cooldown, the event sets the
\* trigger time to t, and nothing else moves a trigger time.
C2_GestureCooldown ==
    [][ /\ out'.blink => /\ now' - last_blink_time >= BLINK_COOLDOWN
                         /\ last_blink_time' = now'
        /\ out'.mouth => /\ now' - last_mouth_time >= MOUTH_COOLDOWN
                         /\ last_mouth_time' = now'
        /\ last_blink_time' # last_blink_time => out'.blink
        /\ last_mouth_time' # last_mouth_time => out'.mouth ]_vars

\* a blink event two cooldowns after the construction time
C2_Witness ==
    /\ out.blink
    /\ last_blink_time = now
    /\ now >= 2 * BLINK_COOLDOWN

\* C3: from counter 0 with the cooldown elapsed, a run of exactly
\* EYE_AR_CONSEC_FRAMES closed-eye frames triggers one blink event on the
\* first open-eye frame, none on the open-eye frames after it, and none
\* within BLINK_COOLDOWN of an event.
C3_OneBlinkPerRun ==
    [][ /\ ( /\ Detected(out') /\ runs'.eye = 0
             /\ runs.eye = EYE_AR_CONSEC_FRAMES
             /\ eye_ar_counter = EYE_AR_CONSEC_FRAMES
             /\ now' - last_blink_time >= BLINK_COOLDOWN ) => out'.blink
        /\ out'.blink => runs.eye >= 1
        /\ out'.blink => now' - last_blink_time >= BLINK_COOLDOWN ]_vars

\* C4: a blink event is emitted only on an open-eye frame that directly
\* follows at least EYE_AR_CONSEC_FRAMES closed-eye frames, a mouth event
\* only on a closed-mouth frame that directly follows at least
\* MOUTH_AR_CONSEC_FRAMES open-mouth frames.
C4_EventAfterConsecutiveFrames ==
    [][ /\ out'.blink => (runs'.eye = 0 /\ runs.eye >= EYE_AR_CONSEC_FRAMES)
        /\ out'.mouth => (runs'.mouth = 0 /\ runs.mouth >= MOUTH_AR_CONSEC_FRAMES) ]_vars

\* C5: a click is issued only CLICK_COOLDOWN or more after the last issued
\* click and records its time; one frame issues at most one click, and the
\* click time moves only with a click.
C5_ClicksApart ==
    [][ /\ out'.clicks # << >> => /\ now' - last_click_time >= CLICK_COOLDOWN
                                  /\ last_click_time' = now'
                                  /\ Len(out'.clicks) = 1
        /\ last_click_time' # last_click_time => out'.clicks # << >> ]_vars

\* a blink and a mouth event in one frame, one click issued
C5_Witness ==
    /\ out.blink /\ out.mouth
    /\ out.clicks = << "right" >>
    /\ last_click_time = now

\* C6: the calibration buffer never holds more than CALIBRATION_FRAMES points.
C6_BufferBounded == BagCardinality(calibration_points) <= CALIBRATION_FRAMES

\* a full buffer in a calibration that follows a stop and a start
C6_Witness ==
    /\ BagCardinality(calibration_points) = CALIBRATION_FRAMES
    /\ ~is_calibrated
    /\ reference_point # None

\* the buffer holds CALIBRATION_FRAMES copies of one point
Identical(b) ==
    \E p \in FacePoints : b = [q \in {p} |-> CALIBRATION_FRAMES]

\* calibrate evaluated the buffer in the step
Decided(o) == o.cal \in { "success", "failed" }

\* C7: when calibrate decides on a buffer of CALIBRATION_FRAMES identical
\* points, it succeeds with that point as the reference.
C7_IdenticalPointsSucceed ==
    [][ (Identical(calibration_points) /\ ~is_calibrated /\ Decided(out'))
          => /\ out'.cal = "success"
             /\ is_calibrated'
             /\ \E p \in BagToSet(calibration_points) : reference_point' = AsMean(p) ]_vars

\* C8: counting from an empty buffer, calibrate is pending on observations
\* 1 .. CALIBRATION_FRAMES - 1 and decides on observation CALIBRATION_FRAMES.
C8_DecidesAtCapacity ==
    [][ out'.cal # "none"
          => ( out'.cal = "pending"
               <=> BagCardinality(calibration_points) + 1 < CALIBRATION_FRAMES ) ]_vars

\* C9: after a successful evaluation the reference is the mean of the good
\* points, the velocity is zero, the tracker is calibrated and the buffer
\* is empty.
C9_SuccessCommits ==
    [][ out'.cal = "success"
          => /\ EnoughGood(calibration_points)
             /\ reference_point' = MeanOf(GoodPoints(calibration_points))
             /\ velocity' = << 0, 0 >>
             /\ is_calibrated'
             /\ calibration_points' = EmptyBag ]_vars

\* C10: an evaluation of a full buffer with too few good points fails, is
\* not reported as an error, leaves the calibrated flag, the reference and
\* the velocity as they were and the buffer empty; the next frame with a
\* face starts a new accumulation.
C10_FailureRestarts ==
    [][ /\ (Decided(out') /\ ~EnoughGood(calibration_points))
           => /\ out'.cal = "failed"
              /\ out'.ret = "ok"
              /\ is_calibrated' = is_calibrated
              /\ reference_point' = reference_point
              /\ velocity' = velocity
              /\ calibration_points' = EmptyBag
        /\ out'.cal = "failed" => ~EnoughGood(calibration_points)
        /\ (out.cal = "failed" /\ out'.cal # "none")
           => (out'.cal = "pending" /\ BagCardinality(calibration_points') = 1) ]_vars

\* a failed evaluation after a restart: velocity and reference of the
\* first round are still there
C10_Witness ==
    /\ out.cal = "failed"
    /\ velocity # << 0, 0 >>
    /\ reference_point # None
    /\ calibration_points = EmptyBag

\* C11: a toggle_tracking that takes the tracker out of tracking leaves the
\* calibrated flag false, the reference point cleared and the calibration
\* buffer empty.
C11_StopInvalidatesCalibration ==
    [][ (is_tracking /\ ~is_tracking')
          => /\ ~is_calibrated'
             /\ reference_point' = None
             /\ calibration_points' = EmptyBag ]_vars

\* C12: after set_profile(name) the active profile is the named one and the
\* tracker is uncalibrated.
C12_SetProfileForcesRecalibration ==
    [][ \A name \in ProfileNames :
          HandleSetProfile(name)
            => /\ current_profile'.name = name
               /\ ~is_calibrated' ]_vars

\* a settings payload with a value float() rejects
InvalidPayload(data) ==
    \E k \in DOMAIN data : k # "region_bounds" /\ data[k][1] # "num"

\* C16: a settings update with an invalid value is reported as an error and
\* leaves every field of the active profile as it was.
C16_InvalidSettingsRejectedWhole ==
    [][ \A data \in LifeSettings :
          (HandleSettingsUpdate(data) /\ InvalidPayload(data))
            => /\ out'.ret = "error"
               /\ current_profile' = current_profile ]_vars

\* the four life-cycle states, read off the flags
Idle(s) == ~s.is_tracking
Paused(s) == s.is_tracking /\ s.is_paused
Calibrating(s) == s.is_tracking /\ ~s.is_paused /\ ~s.is_calibrated
Tracking(s) == s.is_tracking /\ ~s.is_paused /\ s.is_calibrated

\* C19: the toggle_tracking that starts a stopped tracker leaves it in
\* Calibrating, whatever state it was stopped in: the next frame with a face
\* is fed to the calibrator.
C19_RestartCalibrates ==
    [][ (~is_tracking /\ is_tracking')
          => /\ Calibrating(Self')
             /\ process_frame(Self', TRUE, Still, RestEar, RestMar, RestPos, now').out.cal
                  # "none" ]_vars

\* C20: the toggle_tracking socket handler flips the tracker between
\* tracking and stopped and reports the new status.
C20_HandlerTogglesTracking ==
    [][ out'.op = "handle_toggle_tracking"
          => /\ is_tracking' = ~is_tracking
             /\ out'.ret = (IF is_tracking' THEN "tracking" ELSE "stopped") ]_vars

\* C13: toggle_pause flips the paused flag and changes nothing else of the
\* tracker, so pausing and resuming with no frame in between gives back
\* the state before.
C13_PauseOnlyFlipsFlag ==
    /\ [][ out'.op = "toggle_pause"
             => /\ is_paused' = ~is_paused
                /\ UNCHANGED << is_tracking, is_calibrated, calibration_points,
                                reference_point, velocity, last_update, last_click_time,
                                gestureVars, current_profile, store >> ]_vars
    /\ [](toggle_pause(toggle_pause(Self)) = Self)

\* resumed after a pause, with a blink half counted and a trigger time set
C13_Witness ==
    /\ out.op = "toggle_pause"
    /\ ~is_paused
    /\ eye_ar_counter > 0
    /\ last_blink_time > 0

\* C14: a frame that starts with the tracker stopped, paused or not
\* calibrated issues no cursor move and no click and runs neither the
\* gesture detectors nor the position update; in Calibrating a frame with a
\* face goes to the calibrator.
C14_OnlyTrackingActs ==
    [][ out'.op = "frame"
          => /\ (~is_tracking \/ is_paused \/ ~is_calibrated)
                  => /\ out'.move = None
                     /\ out'.clicks = << >>
                     /\ ~out'.blink /\ ~out'.mouth
                     /\ UNCHANGED << gestureVars, velocity, last_update, last_click_time >>
             /\ (~is_tracking \/ is_paused)
                  => /\ out'.cal = "none"
                     /\ UNCHANGED << calibration_points, is_calibrated, reference_point >>
             /\ (Calibrating(Self) /\ out'.ret # "noface") => out'.cal # "none" ]_vars

\* a paused frame that arrives when a blink is counted in full and the
\* cooldown has elapsed
C14_Witness ==
    /\ out.op = "frame" /\ out.ret = "paused"
    /\ eye_ar_counter >= EYE_AR_CONSEC_FRAMES
    /\ now - last_blink_time >= BLINK_COOLDOWN

\* C15: a frame in which the detector finds no face reports no-face and
\* changes nothing of the tracker.
C15_NoFaceNoUpdate ==
    /\ [][ out'.ret = "noface"
             => UNCHANGED << trackerVars, gestureVars, current_profile, store >> ]_vars
    /\ [](\E r \in { process_frame(Self, FALSE, Still, RestEar, RestMar, RestPos, now) } :
             /\ r.s = Self
             /\ (is_tracking /\ ~is_paused) => r.out = Quiet("frame", "noface"))

\* a no-face frame in the middle of a closed-eye run
C15_Witness ==
    /\ out.ret = "noface"
    /\ eye_ar_counter > 0
    /\ runs.eye > 0

\* C17: a frame issues a cursor move or a click only while the tracker is
\* tracking and not paused: never after a command that paused or stopped
\* the tracker has completed.
C17_NoActionAfterPauseOrStop ==
    [][ (out'.op = "frame" /\ (out'.move # None \/ out'.clicks # << >>))
          => (is_tracking /\ ~is_paused) ]_vars

\* C18: when no frame is in flight, a stopped tracker is uncalibrated and
\* its calibration buffer is empty.
C18_StopSurvivesInFlightFrame ==
    (frame_thread.pc = "idle" /\ ~is_tracking)
       => (~is_calibrated /\ calibration_points = EmptyBag)

\* C21: a frame whose eye (mouth) ratio computation faulted emits no blink
\* (mouth) event and does not increment the eye (mouth) counter.
C21_FaultedRatioIsNoGesture ==
    [][ \A dt \in MotionDts, ear \in EarValues \cup { FaultRatio },
           mar \in MarValues \cup { FaultRatio } :
          Frame(dt, TRUE, Still, ear, mar, RestPos)
            => /\ ear = FaultRatio
                    => (~out'.blink /\ eye_ar_counter' <= eye_ar_counter)
               /\ mar = FaultRatio
                    => (~out'.mouth /\ mouth_ar_counter' <= mouth_ar_counter) ]_vars

\* C22: a frame that faulted leaves the frame loop between two frames,
\* ready to read and process the next one; the loop is never ended.
C22_FaultsDoNotEndLoop ==
    /\ [][ (out'.op = "frame" /\ out'.ret = "error") => frame_thread'.pc = "idle" ]_vars
    /\ [](frame_thread.pc # "dead")

\* a frame that moved the cursor after the frame whose profile save raised
\* (the profile file is left unreadable by that save)
C22_Witness ==
    /\ out.op = "frame" /\ out.ret = "ok"
    /\ out.move # None
    /\ store[DEFAULT_PROFILE] = << "corrupt" >>

\* the one-sample scenario: reference Still, zero velocity, the nose at
\* ScenarioPoint, 33 ms since the last position update, the pointer at pos
OneSample(pos) ==
    /\ reference_point = AsMean(Still)
    /\ velocity = << 0, 0 >>
    /\ now' - last_update = 33
    /\ Frame(33, TRUE, ScenarioPoint, RestEar, RestMar, pos)

\* C23 as stated: in the one-sample scenario the velocity is strictly to
\* the right with no y component and the target is not left of the
\* pointer, wherever the pointer was.
C23_NeverMovesLeft ==
    [][ \A pos \in ScenarioCursors :
          OneSample(pos)
            => /\ velocity'[1] > 0 /\ velocity'[2] = 0
               /\ out'.move[1] >= pos[1] ]_vars

\* C23 amended: the same, for a pointer not right of the padded screen;
\* a pointer right of it is brought back to the padded edge.
C23_NeverMovesLeftInsidePadding ==
    [][ \A pos \in ScenarioCursors :
          OneSample(pos)
            => /\ velocity'[1] > 0 /\ velocity'[2] = 0
               /\ pos[1] <= screen_w - SCREEN_PADDING => out'.move[1] >= pos[1]
               /\ pos[1] > screen_w - SCREEN_PADDING
                     => out'.move[1] = screen_w - SCREEN_PADDING ]_vars

\* the sample applied with the pointer in the middle of the screen
C23_Witness ==
    /\ now = 33 /\ last_update = 33
    /\ velocity[1] > 0 /\ velocity[2] = 0
    /\ out.move = << RestPos[1] + 1, RestPos[2] >>

\* the longest time between two frames of the motion specification
FrameInterval == CHOOSE d \in MotionDts : \A e \in MotionDts : e <= d

\* C24: the dt a position update uses (the time since last_update) is at
\* most one inter-frame interval, also on the first update after a pause or
\* after frames without a face.
C24_ResumeUsesOneInterval ==
    [][ Detected(out') => now' - last_update <= FrameInterval ]_vars

\* C25: a frame that emits a blink and a mouth event dispatches one click,
\* the right one; the left click is not issued, and the mouth trigger time
\* is the frame's time all the same.
C25_BothGesturesOneRightClick ==
    [][ (out'.blink /\ out'.mouth)
          => /\ out'.clicks = << "right" >>
             /\ last_click_time' = now'
             /\ last_mouth_time' = now'
             /\ last_blink_time' = now' ]_vars

\* both events on one frame, the mouth trigger time advanced, one click
C25_Witness ==
    /\ out.blink /\ out.mouth
    /\ last_mouth_time = now /\ last_blink_time = now
    /\ Len(out.clicks) = 1

\* C26: a calibrated tracker has a reference point.
C26_CalibratedHasReference == is_calibrated => reference_point # None

\* a calibrated tracker whose update_position took the offset of the nose
\* from the reference
C26_Witness ==
    /\ is_calibrated /\ is_tracking
    /\ reference_point # None
    /\ out.op = "frame" /\ out.move # None
    /\ velocity[1] > 0 /\ velocity[2] > 0

\* the tracker with other values in the profile's sensitivity and smoothing
Retuned(s, sens, smooth) ==
    [s EXCEPT !.current_profile = [@ EXCEPT !.sensitivity = sens, !.smoothing = smooth]]

\* the tracker with another blink threshold in the profile
Rethresholded(s, threshold) ==
    [s EXCEPT !.current_profile = [@ EXCEPT !.blink_threshold = threshold]]

====
